---- MODULE Spec2Model ----
(***************************************************************************)
(* process_reco of reconciliation_logic.py: the reconciliation of the      *)
(* GSTR-2B table (authority side) with the purchase register (internal     *)
(* side).  The stages of the function are the actions, in program order:   *)
(*   Validate, Standardize, Aggregate, Merge, FillNull, DiffCalc,          *)
(*   Classify, FuzzyMatching, DropConsumed, GstinMismatch, Return.         *)
(*                                                                         *)
(* Spec runs process_reco on its two arguments.  SpecFrame runs lines      *)
(* 139-273 on a joined frame that carries the columns those lines read.    *)
(*                                                                         *)
(* A data frame is a record [columns, rows]; a row is a function from      *)
(* column names (the names of the source) to cells.  A cell is NaN (the    *)
(* empty tuple) or Cell(v).  Text is a tuple of one-character strings, so  *)
(* that upper-casing, the [^A-Z0-9] filter, the lexicographic order of the *)
(* join and the similarity ratio are computed on the characters.           *)
(***************************************************************************)
EXTENDS Bags, FiniteSets, Integers, Sequences, TLC

VARIABLES
    pc,        \* the stage process_reco has reached
    gst_df,    \* argument gst_df  (never written: line 38 copies it)
    pur_df,    \* argument pur_df  (never written: line 39 copies it)
    gst,       \* local gst after lines 76-85
    pur,       \* local pur after lines 79-88
    gst_agg,   \* lines 93-104
    pur_agg,   \* lines 106-118
    merged,    \* lines 123-271
    matches,   \* history: the tuples extractOne returned at line 201, as <<left_idx, right_idx>>
    flagged,   \* history: the pairs <<left_idx, right_idx>> written at lines 268-269
    error      \* the exception process_reco raised, if any

vars == <<pc, gst_df, pur_df, gst, pur, gst_agg, pur_agg, merged, matches, flagged, error>>

(***************************************************************************)
(* Bounds of the model.                                                    *)
(***************************************************************************)
\* rows of the two input tables together
MaxRows == 3
\* required columns a table may lack
MaxMissing == 2

(***************************************************************************)
(* Cells and text.                                                         *)
(***************************************************************************)
NaN == <<>>
Cell(v) == <<v>>
Val(c) == c[1]
\* a cell holding text that is no number (two components, so never a number cell)
TextCell == <<"text", "n/a">>

fillna(c, v) == IF c = NaN THEN Cell(v) ELSE c

\* pd.to_numeric(errors="coerce"): a number stays, anything else becomes NaN
to_numeric(c) == IF Len(c) = 1 THEN c ELSE NaN

Abs(n) == IF n < 0 THEN -n ELSE n

Range(s) == {s[i] : i \in DOMAIN s}

\* the characters of the model's texts with their code points
CharCode ==
    ("-" :> 45) @@ ("/" :> 47) @@ ("0" :> 48) @@ ("1" :> 49) @@ ("2" :> 50) @@
    ("3" :> 51) @@ ("G" :> 71) @@ ("I" :> 73) @@ ("N" :> 78) @@ ("O" :> 79) @@
    ("V" :> 86) @@ ("i" :> 105) @@ ("n" :> 110) @@ ("v" :> 118)

Chr(n) == CHOOSE c \in DOMAIN CharCode : CharCode[c] = n

\* str.upper on one character
upper(c) == IF CharCode[c] \in 97..122 THEN Chr(CharCode[c] - 32) ELSE c

\* the characters the regex [^A-Z0-9] keeps
IsAZ09(c) == CharCode[c] \in 48..57 \/ CharCode[c] \in 65..90

\* Python's order on strings
RECURSIVE StrLess(_, _)
StrLess(a, b) ==
    IF b = <<>> THEN FALSE
    ELSE IF a = <<>> THEN TRUE
    ELSE IF CharCode[Head(a)] # CharCode[Head(b)] THEN CharCode[Head(a)] < CharCode[Head(b)]
    ELSE StrLess(Tail(a), Tail(b))

\* normalize_doc on one cell of the series
normalize_doc(c) ==
    LET s  == Val(fillna(c, <<>>))
        up == [i \in 1..Len(s) |-> upper(s[i])]
    IN  Cell(SelectSeq(up, IsAZ09))

(***************************************************************************)
(* Column lists of process_reco.                                           *)
(***************************************************************************)
gst_required ==
    << "Supplier GSTIN", "Document Number", "Document Date", "Supplier Name",
       "IGST Amount", "CGST Amount", "SGST Amount", "Taxable Value" >>

pur_required ==
    << "GSTIN Of Vendor/Customer", "Reference Document No.", "FI Document Number",
       "Tax Description", "Vendor/Customer Name",
       "IGST Amount", "CGST Amount", "SGST Amount", "Taxable Amount" >>

gst_numeric == << "IGST Amount", "CGST Amount", "SGST Amount", "Taxable Value" >>
pur_numeric == << "IGST Amount", "CGST Amount", "SGST Amount", "Taxable Amount" >>

\* the keys of groupby and merge
on == << "Supplier GSTIN", "doc_norm" >>

\* merge(..., suffixes=("_2B", "_PUR"))
suffixes == << "_2B", "_PUR" >>

numeric_cols ==
    << "IGST Amount_2B", "CGST Amount_2B", "SGST Amount_2B", "Taxable Value_2B",
       "IGST Amount_PUR", "CGST Amount_PUR", "SGST Amount_PUR", "Taxable Amount_PUR" >>

\* The columns of the descriptive fields ("first" in the agg dicts) hold no
\* value any later line reads; rows carry the key and the monetary columns.
Descriptive ==
    { "Document Number", "Document Date", "Supplier Name", "Reference Document No.",
      "FI Document Number", "Tax Description", "Vendor/Customer Name" }

\* default arguments of process_reco
doc_threshold == 85
tax_tolerance == 10
gstin_mismatch_tolerance == 20

(***************************************************************************)
(* validate_columns.                                                       *)
(***************************************************************************)
NoError == [raised |-> FALSE, type |-> "", df_name |-> "", missing |-> <<>>]

Missing(columns, required_cols) == SelectSeq(required_cols, LAMBDA col : col \notin columns)

\* the variant that reports the first missing column only
validate_columns_first(columns, required_cols, df_name) ==
    LET missing == Missing(columns, required_cols)
    IN  IF missing # <<>>
        THEN [raised |-> TRUE, type |-> "ValueError", df_name |-> df_name,
              missing |-> <<Head(missing)>>]
        ELSE NoError

validate_columns(columns, required_cols, df_name) ==
    LET missing == Missing(columns, required_cols)
    IN  IF missing # <<>>
        THEN [raised |-> TRUE, type |-> "ValueError", df_name |-> df_name,
              missing |-> missing]
        ELSE NoError

(***************************************************************************)
(* Frames.                                                                 *)
(***************************************************************************)
EmptyRows == [i \in {} |-> NaN]
NoFrame == [columns |-> {}, rows |-> EmptyRows]

\* the index labels of a frame, ascending (the order every loop follows)
RECURSIVE SortedLabels(_)
SortedLabels(S) ==
    IF S = {} THEN <<>>
    ELSE LET m == CHOOSE x \in S : \A y \in S : x <= y
         IN  <<m>> \o SortedLabels(S \ {m})

Index(frame) == SortedLabels(DOMAIN frame.rows)

\* frame[mask]: the rows that satisfy Keep, under their labels
Filter(frame, Keep(_)) ==
    [columns |-> frame.columns,
     rows    |-> [i \in {j \in DOMAIN frame.rows : Keep(frame.rows[j])} |-> frame.rows[i]]]

\* frame[col] = f(row) for every row
Assign(frame, col, F(_)) ==
    [columns |-> frame.columns \cup {col},
     rows    |-> [i \in DOMAIN frame.rows |->
                    [x \in DOMAIN frame.rows[i] \cup {col} |->
                        IF x = col THEN F(frame.rows[i]) ELSE frame.rows[i][x]]]]

(***************************************************************************)
(* Lines 76-88: numeric standardization, doc_norm, rename.                 *)
(***************************************************************************)
\* the image of a bag of rows under a row transformation
MapBag(F(_), b) ==
    LET img == {F(r) : r \in DOMAIN b}
        RECURSIVE Count(_)
        Count(S) == IF S = {} THEN 0
                    ELSE LET r == CHOOSE r \in S : TRUE IN b[r] + Count(S \ {r})
    IN  [r2 \in img |-> Count({r \in DOMAIN b : F(r) = r2})]

StandardizeRow(r, numeric, doc_col, renames) ==
    LET num == [c \in DOMAIN r |-> IF c \in Range(numeric)
                                     THEN fillna(to_numeric(r[c]), 0) ELSE r[c]]
        nrm == [c \in DOMAIN num \cup {"doc_norm"} |->
                    IF c = "doc_norm" THEN normalize_doc(r[doc_col]) ELSE num[c]]
        new(c) == IF c \in DOMAIN renames THEN renames[c] ELSE c
    IN  [c \in {new(x) : x \in DOMAIN nrm} |->
            nrm[CHOOSE x \in DOMAIN nrm : new(x) = c]]

StandardizeFrame(df, numeric, doc_col, renames) ==
    [columns |-> {IF c \in DOMAIN renames THEN renames[c] ELSE c : c \in df.columns}
                 \cup {"doc_norm"},
     rows    |-> MapBag(LAMBDA r : StandardizeRow(r, numeric, doc_col, renames), df.rows)]

(***************************************************************************)
(* Lines 93-118: groupby(["Supplier GSTIN", "doc_norm"], as_index=False)   *)
(* .agg(...).  groupby drops the rows with a NaN key (dropna=True) and     *)
(* sorts the groups by key.                                                *)
(***************************************************************************)
KeyOf(r) == <<r[on[1]], r[on[2]]>>

KeyLess(a, b) ==
    \/ StrLess(Val(a[1]), Val(b[1]))
    \/ a[1] = b[1] /\ StrLess(Val(a[2]), Val(b[2]))

RECURSIVE SortedKeys(_)
SortedKeys(S) ==
    IF S = {} THEN <<>>
    ELSE LET m == CHOOSE x \in S : \A y \in S \ {x} : KeyLess(x, y)
         IN  <<m>> \o SortedKeys(S \ {m})

HasKey(r) == r[on[1]] # NaN /\ r[on[2]] # NaN

GroupedRows(b) == {r \in DOMAIN b : HasKey(r)}

RECURSIVE SumCol(_, _, _)
SumCol(b, S, col) ==
    IF S = {} THEN 0
    ELSE LET r == CHOOSE r \in S : TRUE
         IN  b[r] * Val(r[col]) + SumCol(b, S \ {r}, col)

groupby_agg(df, sum_cols) ==
    LET live == GroupedRows(df.rows)
        keys == SortedKeys({KeyOf(r) : r \in live})
        cols == Range(on) \cup Range(sum_cols)
        row(k) == [c \in cols |->
                     IF c = on[1] THEN k[1]
                     ELSE IF c = on[2] THEN k[2]
                     ELSE Cell(SumCol(df.rows, {r \in live : KeyOf(r) = k}, c))]
    IN  [columns |-> cols \cup (df.columns \cap Descriptive),
         rows    |-> [i \in 0..(Len(keys) - 1) |-> row(keys[i + 1])]]

(***************************************************************************)
(* Lines 123-129: gst_agg.merge(pur_agg, on=..., how="outer",              *)
(* suffixes=("_2B", "_PUR"), indicator=True).  A suffix is added to the    *)
(* columns the two frames share, and to no other column.                   *)
(***************************************************************************)
Overlap(left, right) == (left.columns \cap right.columns) \ Range(on)

Suffixed(c, left, right, s) == IF c \in Overlap(left, right) THEN c \o s ELSE c

FrameKeys(frame) == {KeyOf(frame.rows[i]) : i \in DOMAIN frame.rows}

RowOfKey(frame, k) == frame.rows[CHOOSE i \in DOMAIN frame.rows : KeyOf(frame.rows[i]) = k]

outer_merge(left, right) ==
    LET keys  == SortedKeys(FrameKeys(left) \cup FrameKeys(right))
        lcols == left.columns \ Range(on)
        rcols == right.columns \ Range(on)
        lname(c) == Suffixed(c, left, right, suffixes[1])
        rname(c) == Suffixed(c, left, right, suffixes[2])
        \* the value columns that carry data in the model
        ldata == {c \in lcols : c \notin Descriptive}
        rdata == {c \in rcols : c \notin Descriptive}
        row(k) ==
            LET inl == k \in FrameKeys(left)
                inr == k \in FrameKeys(right)
            IN  (on[1] :> k[1]) @@ (on[2] :> k[2])
                @@ [n \in {lname(c) : c \in ldata} |->
                      IF inl THEN RowOfKey(left, k)[CHOOSE c \in ldata : lname(c) = n] ELSE NaN]
                @@ [n \in {rname(c) : c \in rdata} |->
                      IF inr THEN RowOfKey(right, k)[CHOOSE c \in rdata : rname(c) = n] ELSE NaN]
                @@ ("_merge" :> Cell(IF inl /\ inr THEN "both"
                                     ELSE IF inl THEN "left_only" ELSE "right_only"))
    IN  [columns |-> Range(on) \cup {lname(c) : c \in lcols} \cup {rname(c) : c \in rcols}
                     \cup {"_merge"},
         rows    |-> [i \in 0..(Len(keys) - 1) |-> row(keys[i + 1])]]

(***************************************************************************)
(* Lines 139-149: fill the null numerics, compute the differences.         *)
(***************************************************************************)
fill_numeric(frame) ==
    [columns |-> frame.columns,
     rows    |-> [i \in DOMAIN frame.rows |->
                    [c \in DOMAIN frame.rows[i] |->
                        IF c \in Range(numeric_cols) THEN fillna(frame.rows[i][c], 0)
                        ELSE frame.rows[i][c]]]]

\* lines 146-149 in order: <<column written, minuend read, subtrahend read>>
diff_lines ==
    << <<"IGST Diff",    "IGST Amount_PUR",    "IGST Amount_2B">>,
       <<"CGST Diff",    "CGST Amount_PUR",    "CGST Amount_2B">>,
       <<"SGST Diff",    "SGST Amount_PUR",    "SGST Amount_2B">>,
       <<"Taxable Diff", "Taxable Amount_PUR", "Taxable Value_2B">> >>

KeyError(col) == [raised |-> TRUE, type |-> "KeyError", df_name |-> "", missing |-> <<col>>]

Sub(a, b) == IF a = NaN \/ b = NaN THEN NaN ELSE Cell(Val(a) - Val(b))

\* merged[col]: the lines run in order, and the first column read that the
\* frame lacks raises KeyError
RECURSIVE diff_calc(_, _)
diff_calc(frame, i) ==
    IF i > Len(diff_lines) THEN [frame |-> frame, error |-> NoError]
    ELSE LET d == diff_lines[i]
         IN  IF d[2] \notin frame.columns THEN [frame |-> frame, error |-> KeyError(d[2])]
             ELSE IF d[3] \notin frame.columns THEN [frame |-> frame, error |-> KeyError(d[3])]
             ELSE diff_calc(Assign(frame, d[1], LAMBDA r : Sub(r[d[2]], r[d[3]])), i + 1)

(***************************************************************************)
(* The input tables.                                                       *)
(***************************************************************************)
G1 == <<"G", "1">>
G2 == <<"G", "2">>
G3 == <<"G", "3">>

GstRow(g, d, a) ==
    ("Supplier GSTIN" :> g) @@ ("Document Number" :> d) @@ ("IGST Amount" :> a[1])
    @@ ("CGST Amount" :> a[2]) @@ ("SGST Amount" :> a[3]) @@ ("Taxable Value" :> a[4])

PurRow(g, d, a) ==
    ("GSTIN Of Vendor/Customer" :> g) @@ ("Reference Document No." :> d)
    @@ ("IGST Amount" :> a[1]) @@ ("CGST Amount" :> a[2]) @@ ("SGST Amount" :> a[3])
    @@ ("Taxable Amount" :> a[4])

\* cells the rows of the input tables are drawn from
InGstins  == {Cell(G1), NaN}
InDocs    == {NaN, Cell(<<"i", "n", "v", "-", "0", "2">>), Cell(<<"I", "N", "V", "0", "2">>)}
InAmounts == { <<Cell(0), Cell(0), Cell(0), Cell(500)>>,
               <<TextCell, Cell(0), Cell(0), NaN>> }

GstRows == {GstRow(g, d, a) : g \in InGstins, d \in InDocs, a \in InAmounts}
PurRows == {PurRow(g, d, a) : g \in InGstins, d \in InDocs, a \in InAmounts}

RECURSIVE BagsUpTo(_, _)
BagsUpTo(S, n) ==
    IF n = 0 THEN {EmptyBag}
    ELSE LET prev == BagsUpTo(S, n - 1)
         IN  prev \cup {b (+) SetToBag({r}) : b \in prev, r \in S}

GstBags == [k \in 0..MaxRows |-> BagsUpTo(GstRows, k)]
PurBags == [k \in 0..MaxRows |-> BagsUpTo(PurRows, k)]

\* the column sets of a table that lacks at most MaxMissing required columns
ColumnSets(required) ==
    {Range(required) \ m : m \in {x \in SUBSET Range(required) : Cardinality(x) <= MaxMissing}}

Restrict(r, cols) == [c \in DOMAIN r \cap cols |-> r[c]]

\* a table that lacks a column: no row, or one row
SampleAmounts == <<Cell(0), Cell(0), Cell(0), Cell(500)>>
SampleDoc == Cell(<<"I", "N", "V", "0", "2">>)
SampleBags(row, cols) == {EmptyBag, SetToBag({Restrict(row, cols)})}

Complete(gc, pcs) == gc = Range(gst_required) /\ pcs = Range(pur_required)

Init ==
    /\ pc = "start"
    /\ \E gc \in ColumnSets(gst_required), pcs \in ColumnSets(pur_required) :
          IF Complete(gc, pcs)
          THEN \E gb \in GstBags[MaxRows] :
                 \E pb \in PurBags[MaxRows - BagCardinality(gb)] :
                    /\ gst_df = [columns |-> gc, rows |-> gb]
                    /\ pur_df = [columns |-> pcs, rows |-> pb]
          ELSE \E gb \in SampleBags(GstRow(Cell(G1), SampleDoc, SampleAmounts), gc) :
                 \E pb \in SampleBags(PurRow(Cell(G1), SampleDoc, SampleAmounts), pcs) :
                    /\ gst_df = [columns |-> gc, rows |-> gb]
                    /\ pur_df = [columns |-> pcs, rows |-> pb]
    /\ gst = NoFrame
    /\ pur = NoFrame
    /\ gst_agg = NoFrame
    /\ pur_agg = NoFrame
    /\ merged = NoFrame
    /\ matches = <<>>
    /\ flagged = <<>>
    /\ error = NoError

(***************************************************************************)
(* The stages of process_reco, lines 67-149.                               *)
(***************************************************************************)
\* lines 67-68: the 2B file is validated first, the purchase file second
Validate ==
    /\ pc = "start"
    /\ LET e1 == validate_columns(gst_df.columns, gst_required, "2B File")
           e2 == validate_columns(pur_df.columns, pur_required, "Purchase File")
       IN  IF e1.raised THEN pc' = "ValueError" /\ error' = e1
           ELSE IF e2.raised THEN pc' = "ValueError" /\ error' = e2
           ELSE pc' = "validated" /\ error' = error
    /\ UNCHANGED <<gst_df, pur_df, gst, pur, gst_agg, pur_agg, merged, matches, flagged>>

\* lines 76-88
Standardize ==
    /\ pc = "validated"
    /\ gst' = StandardizeFrame(gst_df, gst_numeric, "Document Number", <<>>)
    /\ pur' = StandardizeFrame(pur_df, pur_numeric, "Reference Document No.",
                               ("GSTIN Of Vendor/Customer" :> "Supplier GSTIN"))
    /\ pc' = "normalized"
    /\ UNCHANGED <<gst_df, pur_df, gst_agg, pur_agg, merged, matches, flagged, error>>

\* lines 93-118
Aggregate ==
    /\ pc = "normalized"
    /\ gst_agg' = groupby_agg(gst, gst_numeric)
    /\ pur_agg' = groupby_agg(pur, pur_numeric)
    /\ pc' = "aggregated"
    /\ UNCHANGED <<gst_df, pur_df, gst, pur, merged, matches, flagged, error>>

\* lines 123-129
Merge ==
    /\ pc = "aggregated"
    /\ merged' = outer_merge(gst_agg, pur_agg)
    /\ pc' = "merged"
    /\ UNCHANGED <<gst_df, pur_df, gst, pur, gst_agg, pur_agg, matches, flagged, error>>

\* lines 139-141
FillNull ==
    /\ pc = "merged"
    /\ merged' = fill_numeric(merged)
    /\ pc' = "filled"
    /\ UNCHANGED <<gst_df, pur_df, gst, pur, gst_agg, pur_agg, matches, flagged, error>>

\* lines 146-149, every column read is a column of merged
DiffCalc ==
    /\ pc = "filled"
    /\ ~diff_calc(merged, 1).error.raised
    /\ merged' = diff_calc(merged, 1).frame
    /\ pc' = "diffed"
    /\ UNCHANGED <<gst_df, pur_df, gst, pur, gst_agg, pur_agg, matches, flagged, error>>

\* lines 146-149, a column read is no column of merged: process_reco ends
\* with the KeyError
DiffCalcKeyError ==
    /\ pc = "filled"
    /\ diff_calc(merged, 1).error.raised
    /\ merged' = diff_calc(merged, 1).frame
    /\ error' = diff_calc(merged, 1).error
    /\ pc' = "KeyError"
    /\ UNCHANGED <<gst_df, pur_df, gst, pur, gst_agg, pur_agg, matches, flagged>>

\* process_reco on its two arguments.  The join names the total-value
\* columns "Taxable Value" and "Taxable Amount" (no suffix: the two frames do
\* not share them), so line 149 raises on every joined frame and no later
\* stage runs; NoDiffCalc states it.
Next ==
    \/ Validate
    \/ Standardize
    \/ Aggregate
    \/ Merge
    \/ FillNull
    \/ DiffCalcKeyError

Spec == Init /\ [][Next]_vars

(***************************************************************************)
(* Lines 151-166: Match_Status and Fuzzy Score.                            *)
(***************************************************************************)
ExactMatch         == "Exact Match"
ExactValueMismatch == "Exact Doc - Value Mismatch"
OpenIn2B           == "Open in 2B"
OpenInBooks        == "Open in Books"
FuzzyMatch         == "Fuzzy Match"
FuzzyValueMismatch == "Fuzzy - Value Mismatch"
FuzzyConsumed      == "Fuzzy Consumed"
GstinMismatched    == "GSTIN Mismatch"

\* series.abs() <= tolerance; a comparison with NaN is False
Within(c, tolerance) == c # NaN /\ Abs(Val(c)) <= tolerance

tax_condition(r) ==
    /\ Within(r["IGST Diff"], tax_tolerance)
    /\ Within(r["CGST Diff"], tax_tolerance)
    /\ Within(r["SGST Diff"], tax_tolerance)
    /\ Within(r["Taxable Diff"], tax_tolerance)

StatusOf(r) == r["Match_Status"]
HasStatus(r, s) == StatusOf(r) = Cell(s)

\* lines 163-166, on a row whose Match_Status is None
first_status(r) ==
    IF r["_merge"] = Cell("both") /\ tax_condition(r) THEN Cell(ExactMatch)
    ELSE IF r["_merge"] = Cell("both") THEN Cell(ExactValueMismatch)
    ELSE IF r["_merge"] = Cell("left_only") THEN Cell(OpenIn2B)
    ELSE IF r["_merge"] = Cell("right_only") THEN Cell(OpenInBooks)
    ELSE NaN

\* a score is the fraction <<numerator, denominator>>; 0.0 is <<0, 1>>
classify(frame) ==
    Assign(Assign(frame, "Fuzzy Score", LAMBDA r : Cell(<<0, 1>>)),
           "Match_Status", first_status)

(***************************************************************************)
(* rapidfuzz: fuzz.ratio and process.extractOne.                           *)
(***************************************************************************)
Max(a, b) == IF a >= b THEN a ELSE b

\* the length of the longest common subsequence
RECURSIVE LCS(_, _)
LCS(a, b) ==
    IF a = <<>> \/ b = <<>> THEN 0
    ELSE IF Head(a) = Head(b) THEN 1 + LCS(Tail(a), Tail(b))
    ELSE Max(LCS(Tail(a), b), LCS(a, Tail(b)))

\* fuzz.ratio: 100 * (1 - indel_distance / (len1 + len2)), where the indel
\* distance is len1 + len2 - 2 * LCS; two empty strings score 100
fuzz_ratio(a, b) ==
    LET n == Len(a) + Len(b)
    IN  IF n = 0 THEN <<100, 1>> ELSE <<100 * (2 * LCS(a, b)), n>>

ScoreAtLeast(score, cutoff) == score[1] >= cutoff * score[2]
ScoreGreater(s, t) == s[1] * t[2] > t[1] * s[2]

NoMatch == [found |-> FALSE, score |-> <<0, 1>>, key |-> 0]

\* process.extractOne(query, choices, scorer=fuzz.ratio, score_cutoff=cutoff):
\* choices is the dict as the sequence of its items <<key, choice>>; the first
\* choice with the greatest score that reaches the cutoff, or None
RECURSIVE extractOne_from(_, _, _, _, _)
extractOne_from(query, choices, cutoff, i, best) ==
    IF i > Len(choices) THEN best
    ELSE LET score == fuzz_ratio(query, choices[i][2])
             better == /\ ScoreAtLeast(score, cutoff)
                       /\ (~best.found \/ ScoreGreater(score, best.score))
         IN  extractOne_from(query, choices, cutoff, i + 1,
                 IF better THEN [found |-> TRUE, score |-> score, key |-> choices[i][1]]
                 ELSE best)

extractOne(query, choices, cutoff) == extractOne_from(query, choices, cutoff, 1, NoMatch)

(***************************************************************************)
(* Lines 171-248: fuzzy matching.                                          *)
(***************************************************************************)
\* merged["Supplier GSTIN"].dropna().unique(): first appearances, in index order
RECURSIVE Unique(_, _)
Unique(s, seen) ==
    IF s = <<>> THEN <<>>
    ELSE IF Head(s) \in seen THEN Unique(Tail(s), seen)
    ELSE <<Head(s)>> \o Unique(Tail(s), seen \cup {Head(s)})

gstin_groups(frame) ==
    LET idx == Index(frame)
        col == [i \in 1..Len(idx) |-> frame.rows[idx[i]]["Supplier GSTIN"]]
    IN  Unique(SelectSeq(col, LAMBDA c : c # NaN), {})

purchase_cols ==
    << "IGST Amount_PUR", "CGST Amount_PUR", "SGST Amount_PUR", "Taxable Amount_PUR" >>

State0(frame) == [frame |-> frame, matches |-> <<>>]

\* lines 208-248 for the match <<left_idx, right_idx>> with its score
apply_match(st, left_idx, right_idx, score) ==
    LET m  == st.frame
        R  == m.rows[right_idx]
        L1 == [c \in DOMAIN m.rows[left_idx] |->
                 IF c \in Range(purchase_cols) THEN R[c] ELSE m.rows[left_idx][c]]
        L2 == [c \in DOMAIN L1 |->
                 IF c = "IGST Diff" THEN Sub(L1["IGST Amount_PUR"], L1["IGST Amount_2B"])
                 ELSE IF c = "CGST Diff" THEN Sub(L1["CGST Amount_PUR"], L1["CGST Amount_2B"])
                 ELSE IF c = "SGST Diff" THEN Sub(L1["SGST Amount_PUR"], L1["SGST Amount_2B"])
                 ELSE IF c = "Taxable Diff"
                      THEN Sub(L1["Taxable Amount_PUR"], L1["Taxable Value_2B"])
                 ELSE L1[c]]
        \* line 240: the total-value difference alone decides the status
        status == IF Within(L2["Taxable Diff"], tax_tolerance)
                  THEN FuzzyMatch ELSE FuzzyValueMismatch
        L3 == [L2 EXCEPT !["Match_Status"] = Cell(status), !["Fuzzy Score"] = Cell(score)]
    IN  [frame   |-> [m EXCEPT !.rows[left_idx] = L3,
                               !.rows[right_idx]["Match_Status"] = Cell(FuzzyConsumed)],
         matches |-> Append(st.matches, <<left_idx, right_idx>>)]

\* lines 188-206: the candidates of one left row and the match among them.
\* right_rows is the frame taken at line 178, before the loop over the left
\* rows; the loop never takes it again.
match_of(st, right_rows, left_idx) ==
    LET left_doc     == st.frame.rows[left_idx]["doc_norm"]
        left_taxable == st.frame.rows[left_idx]["Taxable Value_2B"]
        candidates   == Filter(right_rows,
                               LAMBDA r : Within(Sub(r["Taxable Amount_PUR"], left_taxable),
                                                 tax_tolerance))
        cidx         == Index(candidates)
        candidate_dict == [i \in 1..Len(cidx) |->
                              <<cidx[i], Val(candidates.rows[cidx[i]]["doc_norm"])>>]
    IN  IF cidx = <<>> THEN NoMatch
        ELSE extractOne(Val(left_doc), candidate_dict, doc_threshold)

\* lines 186-248
RECURSIVE fuzzy_left_rows(_, _, _)
fuzzy_left_rows(st, right_rows, lefts) ==
    IF lefts = <<>> THEN st
    ELSE LET match == match_of(st, right_rows, Head(lefts))
         IN  fuzzy_left_rows(
                 IF match.found THEN apply_match(st, Head(lefts), match.key, match.score)
                 ELSE st,
                 right_rows, Tail(lefts))

\* lines 171-184 for one GSTIN
fuzzy_group(st, gstin) ==
    LET left_rows  == Filter(st.frame, LAMBDA r : r["Supplier GSTIN"] = gstin
                                                  /\ HasStatus(r, OpenIn2B))
        right_rows == Filter(st.frame, LAMBDA r : r["Supplier GSTIN"] = gstin
                                                  /\ HasStatus(r, OpenInBooks))
    IN  IF DOMAIN right_rows.rows = {} THEN st
        ELSE fuzzy_left_rows(st, right_rows, Index(left_rows))

RECURSIVE fuzzy_groups(_, _)
fuzzy_groups(st, groups) ==
    IF groups = <<>> THEN st
    ELSE fuzzy_groups(fuzzy_group(st, Head(groups)), Tail(groups))

fuzzy_matching(frame) == fuzzy_groups(State0(frame), gstin_groups(frame))

(***************************************************************************)
(* Lines 250-273: drop the consumed rows, GSTIN mismatch, return.          *)
(***************************************************************************)
drop_consumed(frame) == Filter(frame, LAMBDA r : ~HasStatus(r, FuzzyConsumed))

\* lines 264-269 for one left row: open_books is the frame taken at line 256
RECURSIVE mismatch_possible(_, _, _)
mismatch_possible(st, left_idx, possible) ==
    IF possible = <<>> THEN st
    ELSE LET right_idx == Head(possible)
             left_val  == st.frame.rows[left_idx]["Taxable Value_2B"]
             right_val == st.frame.rows[right_idx]["Taxable Amount_PUR"]
             hit       == Within(Sub(left_val, right_val), gstin_mismatch_tolerance)
         IN  mismatch_possible(
                 IF hit
                 THEN [frame   |-> [st.frame EXCEPT
                                      !.rows[left_idx]["Match_Status"] = Cell(GstinMismatched),
                                      !.rows[right_idx]["Match_Status"] = Cell(GstinMismatched)],
                       matches |-> Append(st.matches, <<left_idx, right_idx>>)]
                 ELSE st,
                 left_idx, Tail(possible))

RECURSIVE mismatch_left_rows(_, _, _)
mismatch_left_rows(st, open_books, lefts) ==
    IF lefts = <<>> THEN st
    ELSE LET left_doc == st.frame.rows[Head(lefts)]["doc_norm"]
             possible == Filter(open_books, LAMBDA r : r["doc_norm"] = left_doc)
         IN  mismatch_left_rows(mismatch_possible(st, Head(lefts), Index(possible)),
                                open_books, Tail(lefts))

\* lines 255-269; the pairs written are returned as .matches
gstin_mismatch(frame) ==
    LET open_2b    == Filter(frame, LAMBDA r : HasStatus(r, OpenIn2B))
        open_books == Filter(frame, LAMBDA r : HasStatus(r, OpenInBooks))
    IN  mismatch_left_rows(State0(frame), open_books, Index(open_2b))

\* line 271
drop_column(frame, col) ==
    [columns |-> frame.columns \ {col},
     rows    |-> [i \in DOMAIN frame.rows |->
                    [c \in DOMAIN frame.rows[i] \ {col} |-> frame.rows[i][c]]]]

\* lines 151-166
Classify ==
    /\ pc = "diffed"
    /\ merged' = classify(merged)
    /\ pc' = "classified"
    /\ UNCHANGED <<gst_df, pur_df, gst, pur, gst_agg, pur_agg, matches, flagged, error>>

\* lines 171-248
FuzzyMatching ==
    /\ pc = "classified"
    /\ merged' = fuzzy_matching(merged).frame
    /\ matches' = fuzzy_matching(merged).matches
    /\ pc' = "fuzzied"
    /\ UNCHANGED <<gst_df, pur_df, gst, pur, gst_agg, pur_agg, flagged, error>>

\* line 250
DropConsumed ==
    /\ pc = "fuzzied"
    /\ merged' = drop_consumed(merged)
    /\ pc' = "dropped"
    /\ UNCHANGED <<gst_df, pur_df, gst, pur, gst_agg, pur_agg, matches, flagged, error>>

\* lines 255-269
GstinMismatch ==
    /\ pc = "dropped"
    /\ merged' = gstin_mismatch(merged).frame
    /\ flagged' = gstin_mismatch(merged).matches
    /\ pc' = "mismatched"
    /\ UNCHANGED <<gst_df, pur_df, gst, pur, gst_agg, pur_agg, matches, error>>

\* lines 271-273
Return ==
    /\ pc = "mismatched"
    /\ merged' = drop_column(merged, "_merge")
    /\ pc' = "returned"
    /\ UNCHANGED <<gst_df, pur_df, gst, pur, gst_agg, pur_agg, matches, flagged, error>>

(***************************************************************************)
(* Lines 139-273 on a joined frame that has the two total-value columns    *)
(* under the names these lines read ("Taxable Value_2B" and "Taxable       *)
(* Amount_PUR").  The frame is the outer join of two aggregated tables     *)
(* (one row per key on each side, as groupby leaves them).                 *)
(***************************************************************************)
AggDocs == { <<"I", "N", "V", "0", "0", "2">>, <<"I", "N", "V", "0", "2">>,
             <<"I", "N", "V", "0", "O", "2">> }
AggAmounts == { <<Cell(0), Cell(0), Cell(0), Cell(500)>>,
                <<Cell(11), Cell(0), Cell(0), Cell(510)>>,
                <<Cell(0), Cell(0), Cell(0), Cell(521)>> }

AggRow(g, d, a, total) ==
    ("Supplier GSTIN" :> Cell(g)) @@ ("doc_norm" :> Cell(d)) @@ ("IGST Amount" :> a[1])
    @@ ("CGST Amount" :> a[2]) @@ ("SGST Amount" :> a[3]) @@ (total :> a[4])

\* the keys of the two sides: every document under G1 on both sides; one
\* document and the empty document number under a GSTIN of its own on each side
GstAggKeys == ({G1} \X AggDocs) \cup ({G2} \X {<<"I", "N", "V", "0", "0", "2">>, <<>>})
PurAggKeys == ({G1} \X AggDocs) \cup ({G3} \X {<<"I", "N", "V", "0", "0", "2">>, <<>>})

GstAggRows == {AggRow(k[1], k[2], a, "Taxable Value") : k \in GstAggKeys, a \in AggAmounts}
PurAggRows == {AggRow(k[1], k[2], a, "Taxable Amount") : k \in PurAggKeys, a \in AggAmounts}

\* the sets of at most n rows with pairwise different keys
RECURSIVE KeyedSets(_, _)
KeyedSets(S, n) ==
    IF n = 0 THEN {{}}
    ELSE LET prev == KeyedSets(S, n - 1)
         IN  prev \cup UNION {{T \cup {r} : r \in {x \in S : \A y \in T : KeyOf(y) # KeyOf(x)}}
                              : T \in prev}

GstAggSets == [k \in 0..MaxRows |-> KeyedSets(GstAggRows, k)]
PurAggSets == [k \in 0..MaxRows |-> KeyedSets(PurAggRows, k)]

AggFrame(S, required, numeric) ==
    groupby_agg([columns |-> (Range(required) \cup {"doc_norm", "Supplier GSTIN"})
                             \ {"GSTIN Of Vendor/Customer"},
                 rows |-> SetToBag(S)], numeric)

rename_column(frame, old, new) ==
    LET nm(c) == IF c = old THEN new ELSE c
    IN  [columns |-> {nm(c) : c \in frame.columns},
         rows    |-> [i \in DOMAIN frame.rows |->
                        [c \in {nm(x) : x \in DOMAIN frame.rows[i]} |->
                            frame.rows[i][IF c = new THEN old ELSE c]]]]

\* the joined frame with the total-value columns named as lines 149-265 name them
JoinedFrame(left, right) ==
    rename_column(rename_column(outer_merge(left, right),
                                "Taxable Value", "Taxable Value_2B"),
                  "Taxable Amount", "Taxable Amount_PUR")

InitFrame ==
    /\ pc = "merged"
    /\ gst_df = NoFrame
    /\ pur_df = NoFrame
    /\ gst = NoFrame
    /\ pur = NoFrame
    /\ \E L \in GstAggSets[MaxRows] :
         \E R \in PurAggSets[MaxRows - Cardinality(L)] :
            /\ gst_agg = AggFrame(L, gst_required, gst_numeric)
            /\ pur_agg = AggFrame(R, pur_required, pur_numeric)
            /\ merged = JoinedFrame(AggFrame(L, gst_required, gst_numeric),
                                    AggFrame(R, pur_required, pur_numeric))
    /\ matches = <<>>
    /\ flagged = <<>>
    /\ error = NoError

NextFrame ==
    \/ FillNull
    \/ DiffCalc
    \/ Classify
    \/ FuzzyMatching
    \/ DropConsumed
    \/ GstinMismatch
    \/ Return

SpecFrame == InitFrame /\ [][NextFrame]_vars

(***************************************************************************)
(* Vocabulary of the properties.                                           *)
(***************************************************************************)
Rows(frame) == {frame.rows[i] : i \in DOMAIN frame.rows}

\* both input tables carry every required column
ValidInput == Complete(gst_df.columns, pur_df.columns)

\* process_reco has ended: it returned, or it raised
Stopped == pc \in {"returned", "ValueError", "KeyError"}

\* the join has been built
Joined == pc \notin {"start", "validated", "normalized", "aggregated", "ValueError"}

\* the seven statuses a returned row may carry
FinalStatuses ==
    {ExactMatch, ExactValueMismatch, OpenIn2B, OpenInBooks, FuzzyMatch,
     FuzzyValueMismatch, GstinMismatched}

OnGstSide(k) == k \in FrameKeys(gst_agg)
OnPurSide(k) == k \in FrameKeys(pur_agg)
OnBothSides(k) == OnGstSide(k) /\ OnPurSide(k)

\* internal value - authority value of the four monetary fields of key k,
\* from the two aggregated tables
SideDiffs(k) ==
    LET a == RowOfKey(gst_agg, k)
        b == RowOfKey(pur_agg, k)
    IN  << Val(b["IGST Amount"]) - Val(a["IGST Amount"]),
           Val(b["CGST Amount"]) - Val(a["CGST Amount"]),
           Val(b["SGST Amount"]) - Val(a["SGST Amount"]),
           Val(b["Taxable Amount"]) - Val(a["Taxable Value"]) >>

AllWithin(d, tolerance) == \A i \in DOMAIN d : Abs(d[i]) <= tolerance

StatusIs(r, s) == "Match_Status" \in DOMAIN r /\ r["Match_Status"] = Cell(s)

\* the (GSTIN, normalized document number) keys of an input table
InputKeys(df, gstin_col, doc_col) ==
    {<<r[gstin_col], normalize_doc(r[doc_col])>> : r \in DOMAIN df.rows}

RowsOfKey(k) == {i \in DOMAIN merged.rows : KeyOf(merged.rows[i]) = k}

\* the keys of the join and the index label the join gives each (line 123)
JoinKeys == FrameKeys(gst_agg) \cup FrameKeys(pur_agg)
LabelOfKey(k) ==
    LET keys == SortedKeys(JoinKeys)
    IN  (CHOOSE n \in DOMAIN keys : keys[n] = k) - 1

(***************************************************************************)
(* Line 149 on the frame the join builds.                                  *)
(***************************************************************************)
\* Under Spec, line 149 finds no column "Taxable Amount_PUR" in any joined
\* frame: DiffCalc is never enabled, and process_reco returns no table.
NoDiffCalc ==
    /\ (pc = "filled" => diff_calc(merged, 1).error = KeyError("Taxable Amount_PUR"))
    /\ pc # "returned"

(***************************************************************************)
(* The claims.                                                             *)
(***************************************************************************)

C2_ExactClassification ==
    /\ (pc = "classified" \/ (Stopped /\ Joined)) =>
          \A r \in Rows(merged) :
             OnBothSides(KeyOf(r)) =>
                IF AllWithin(SideDiffs(KeyOf(r)), tax_tolerance)
                THEN StatusIs(r, ExactMatch) ELSE StatusIs(r, ExactValueMismatch)
    /\ pc = "classified" =>
          \A r \in Rows(merged) :
             /\ (OnGstSide(KeyOf(r)) /\ ~OnPurSide(KeyOf(r)) => StatusIs(r, OpenIn2B))
             /\ (OnPurSide(KeyOf(r)) /\ ~OnGstSide(KeyOf(r)) => StatusIs(r, OpenInBooks))

C4_Partition ==
    Joined =>
       /\ \A k \in InputKeys(gst_df, "Supplier GSTIN", "Document Number") :
             Cardinality(RowsOfKey(k)) = 1
       /\ \A k \in InputKeys(pur_df, "GSTIN Of Vendor/Customer", "Reference Document No.") :
             \/ Cardinality(RowsOfKey(k)) = 1
             \/ /\ RowsOfKey(k) = {}
                /\ k \in JoinKeys
                /\ Cardinality({i \in DOMAIN matches : matches[i][2] = LabelOfKey(k)}) = 1

Lacks(df, required) == Range(required) \ df.columns

NothingComputed ==
    /\ gst = NoFrame /\ pur = NoFrame
    /\ gst_agg = NoFrame /\ pur_agg = NoFrame
    /\ merged = NoFrame

\* C6 as claimed: when a required column is absent from either table,
\* process_reco raises a ValueError that names every missing required column
\* (of both tables), before anything is aggregated, joined or matched; when
\* none is absent, validation raises nothing.
C6_NamesEveryMissing ==
    /\ (~ValidInput => pc \in {"start", "ValueError"} /\ NothingComputed)
    /\ (pc = "ValueError" =>
           /\ error.type = "ValueError"
           /\ Range(error.missing)
                 = Lacks(gst_df, gst_required) \cup Lacks(pur_df, pur_required))
    /\ (ValidInput => error.type # "ValueError")

\* C6 as amended: the ValueError names the table that failed validation and
\* every required column that table lacks, once each; the 2B file is validated
\* first, so the purchase file's missing columns are named only when the 2B
\* file lacks none.  It is raised before anything is computed, and never when
\* both tables are complete.
C6_NamesEveryMissingOfFirst ==
    /\ (~ValidInput => pc \in {"start", "ValueError"} /\ NothingComputed)
    /\ (pc = "ValueError" =>
           /\ ~ValidInput
           /\ error.type = "ValueError"
           /\ Len(error.missing) = Cardinality(Range(error.missing))
           /\ IF Lacks(gst_df, gst_required) # {}
              THEN /\ error.df_name = "2B File"
                   /\ Range(error.missing) = Lacks(gst_df, gst_required)
              ELSE /\ error.df_name = "Purchase File"
                   /\ Range(error.missing) = Lacks(pur_df, pur_required))
    /\ (ValidInput => error.type # "ValueError")

\* C6 witness: validation has failed on a 2B file that lacks two columns and a
\* purchase file that lacks one.
C6_Witness ==
    /\ pc = "ValueError"
    /\ Cardinality(Lacks(gst_df, gst_required)) = 2
    /\ Cardinality(Lacks(pur_df, pur_required)) = 1

\* C7: no row of the join that is present on both sides has the empty
\* normalized document number as its key.
C7_NoEmptyKeyJoin ==
    \A r \in Rows(merged) :
       ("_merge" \in DOMAIN r /\ r["_merge"] = Cell("both")) => r["doc_norm"] # Cell(<<>>)

INV002 == <<"I", "N", "V", "0", "0", "2">>
INV0O2 == <<"I", "N", "V", "0", "O", "2">>

\* Scenario 3: one authority row (G1, INV002, total 500) and one internal row
\* (G1, INV0O2, total 500)
Scenario3 ==
    /\ Rows(gst_agg) = {AggRow(G1, INV002, <<Cell(0), Cell(0), Cell(0), Cell(500)>>,
                               "Taxable Value")}
    /\ Rows(pur_agg) = {AggRow(G1, INV0O2, <<Cell(0), Cell(0), Cell(0), Cell(500)>>,
                               "Taxable Amount")}

LinkColumns(r) ==
    DOMAIN r \ (Range(on) \cup Range(numeric_cols) \cup {"_merge", "Match_Status", "Fuzzy Score"}
                \cup {diff_lines[n][1] : n \in DOMAIN diff_lines})

\* a row still open on the authority side (internal side) after fuzzy matching
OpenAuthority(r) ==
    /\ OnGstSide(KeyOf(r)) /\ ~OnPurSide(KeyOf(r))
    /\ (StatusIs(r, OpenIn2B) \/ StatusIs(r, GstinMismatched))
OpenInternal(r) ==
    /\ OnPurSide(KeyOf(r)) /\ ~OnGstSide(KeyOf(r))
    /\ (StatusIs(r, OpenInBooks) \/ StatusIs(r, GstinMismatched))

Partners(l, r) ==
    /\ OpenAuthority(l) /\ OpenInternal(r)
    /\ l["doc_norm"] = r["doc_norm"]
    /\ l["Supplier GSTIN"] # r["Supplier GSTIN"]
    /\ Abs(Val(l["Taxable Value_2B"]) - Val(r["Taxable Amount_PUR"])) <= gstin_mismatch_tolerance

C10_Exhaustive ==
    (ValidInput /\ Stopped) =>
       \A r \in Rows(merged) : \E s \in FinalStatuses : StatusIs(r, s)

====
